---- MODULE Spec2Model ----
(***************************************************************************)
(* Model of update_component_versions.py: the version-sync job that reads  *)
(* the release list of each configured component, picks a version and      *)
(* patches config/metadata.json.                                           *)
(*                                                                         *)
(* Python strings are TLA+ strings (sequences of characters).  A Python    *)
(* value that may be a string, None, or a JSON container is a tagged       *)
(* record: Str(s), None, Obj(m).                                           *)
(***************************************************************************)
EXTENDS Integers, Sequences, FiniteSets, TLC

VARIABLES
    \* --- one execution of the script after another (specification Spec)
    file,            \* config/metadata.json on disk: "missing", "invalid" or its content
    github,          \* what GitHub answers for each repository
    github_output,   \* the blocks appended to $GITHUB_OUTPUT so far
    pc,              \* position of main: off, start, fetch, update, save, output, done, exit1, crashed
    metadata,        \* main's metadata
    changes,         \* main's changes
    ci,              \* position of the loop over COMPONENTS (line 124)
    ki,              \* position of the loop over the component's key paths (line 139)
    latest_version,  \* main's latest_version
    queried,         \* the repositories asked for their releases in this run, in order
    run,             \* n: number of the current execution; prev: how the one before ended;
                     \* emitted: the blocks in $GITHUB_OUTPUT when this one started
    loaded,          \* history: metadata as json.load returned it in this run
    \* --- one call of get_github_release_info (specification SpecFn)
    f_resp,          \* what GitHub answers for repo_name
    f_format,        \* the argument check_tag_format
    f_ret,           \* the value returned
    f_pc,            \* off, call (before the call), ret (after it)
    \* --- one call of update_metadata_value (specification SpecUpd)
    u_metadata,      \* the argument metadata before the call
    u_key_path,      \* the argument key_path
    u_value,         \* the argument value
    u_out,           \* the outcome: raised, ret, and metadata after the call
    u_pc             \* off, call, ret

mvars == <<file, github, github_output, pc, metadata, changes, ci, ki,
           latest_version, queried, run, loaded>>
fvars == <<f_resp, f_format, f_ret, f_pc>>
uvars == <<u_metadata, u_key_path, u_value, u_out, u_pc>>
vars == <<mvars, fvars, uvars>>

\* ------------------------------------------------------------------ bounds

\* Longest release list the specification of get_github_release_info enumerates.
MaxRel == 3

\* Number of executions of the script the specification of main follows.
MaxRuns == 2

\* ------------------------------------------------------------------ values

None == [t |-> "none"]
Str(s) == [t |-> "str", s |-> s]
Obj(m) == [t |-> "obj", m |-> m]

\* ----------------------------------------------------------------- strings

CharAt(s, i) == SubSeq(s, i, i)

\* str.startswith(prefix)
StartsWith(s, prefix) ==
    Len(s) >= Len(prefix) /\ SubSeq(s, 1, Len(prefix)) = prefix

\* `needle in s` for two str operands
Contains(s, needle) ==
    \E i \in 1..(Len(s) - Len(needle) + 1) :
        SubSeq(s, i, i + Len(needle) - 1) = needle

AsciiDigits == {"0", "1", "2", "3", "4", "5", "6", "7", "8", "9"}

\* Stand-in for a decimal digit outside ASCII (U+0663 ARABIC-INDIC DIGIT
\* THREE): a str pattern's \d matches it, [0-9] does not.  Module text is
\* ASCII, so the character is written "~", which no git ref name can hold.
ArabicThree == "~"

\* The class \d of a str pattern (Unicode category Nd).
DecimalDigits == AsciiDigits \cup {ArabicThree}

\* Index just after the longest run of characters of the class D starting at i
\* (the greedy D+; the next pattern item is never of class D, so no
\* backtracking is involved).
RECURSIVE DigitRun(_, _, _)
DigitRun(s, i, D) ==
    IF i <= Len(s) /\ CharAt(s, i) \in D THEN DigitRun(s, i + 1, D) ELSE i

\* `$` without re.MULTILINE: at the end, or just before a newline that ends
\* the string.
AtDollar(s, i) ==
    \/ i = Len(s) + 1
    \/ i = Len(s) /\ CharAt(s, i) = "\n"

\* re.match(r'^D+\.D+\.D+$', s) is not None
ReMatch(s, D) ==
    LET a == DigitRun(s, 1, D)
        b == DigitRun(s, a + 1, D)
        c == DigitRun(s, b + 1, D)
    IN  /\ a > 1
        /\ CharAt(s, a) = "."
        /\ b > a + 1
        /\ CharAt(s, b) = "."
        /\ c > b + 1
        /\ AtDollar(s, c)

\* --------------------------------------------------- get_github_release_info

\* What GitHub answers for one repository: the release list in listed order
\* and, when failAt > 0, the position at which the network layer raises
\* (1: get_repo / get_releases / the first page; k: while delivering the k-th
\* release).  releases.totalCount is the length of the list.
Response(releases, failAt) == [releases |-> releases, failAt |-> failAt]

\* version.lstrip('v') in place of lines 49-50
RECURSIVE StripAllV(_)
StripAllV(tag_name) ==
    IF StartsWith(tag_name, "v") THEN StripAllV(SubSeq(tag_name, 2, Len(tag_name)))
    ELSE tag_name

\* lines 48-50: remove one 'v' prefix
CleanTag(tag_name) ==
    IF StartsWith(tag_name, "v") THEN SubSeq(tag_name, 2, Len(tag_name))
    ELSE tag_name

\* line 44 with the test of release.prerelease lost
SkipPrereleaseNever(releases, release) == FALSE

\* line 44
SkipPrerelease(releases, release) ==
    Len(releases) > 1 /\ release.prerelease

\* lines 53-58
KarpenterRejects(version) ==
    \/ Contains(version, "-controller-")
    \/ ~ReMatch(version, DecimalDigits)

\* lines 61-64
DatadogRejects(version) == ~ReMatch(version, AsciiDigits)

\* The for loop of lines 42-67 from the i-th release on, then lines 69-70;
\* an exception raised by the iterator ends in lines 71-73.
RECURSIVE ReleaseLoop(_, _, _)
ReleaseLoop(resp, check_tag_format, i) ==
    IF i > Len(resp.releases) THEN None
    ELSE IF resp.failAt = i THEN None
    ELSE LET release == resp.releases[i]
             version == CleanTag(release.tag_name)
         IN  IF SkipPrerelease(resp.releases, release)
             THEN ReleaseLoop(resp, check_tag_format, i + 1)
             ELSE IF check_tag_format = Str("karpenter") /\ KarpenterRejects(version)
             THEN ReleaseLoop(resp, check_tag_format, i + 1)
             ELSE IF check_tag_format = Str("datadog") /\ DatadogRejects(version)
             THEN ReleaseLoop(resp, check_tag_format, i + 1)
             ELSE Str(version)

get_github_release_info(resp, check_tag_format) ==
    IF resp.failAt = 1 THEN None
    ELSE ReleaseLoop(resp, check_tag_format, 1)

\* ----------------------------------------------------- update_metadata_value

\* The document json.load returns is built of Obj(m) (a JSON object: m maps
\* its keys to values), Str(s) (a JSON string) and None (JSON null).  A JSON
\* number or boolean fails the operators `in` and [] the way None does, and
\* a JSON array the way a string does, so these three kinds give every
\* outcome of the function.

\* key_path.split('.')
RECURSIVE SplitDot(_)
SplitDot(s) ==
    IF ~Contains(s, ".") THEN <<s>>
    ELSE LET i == CHOOSE j \in 1..Len(s) :
                     /\ CharAt(s, j) = "."
                     /\ \A h \in 1..(j - 1) : CharAt(s, h) # "."
         IN  <<SubSeq(s, 1, i - 1)>> \o SplitDot(SubSeq(s, i + 1, Len(s)))

\* The outcome of a call: raised (an exception left the function), ret (the
\* value returned, when none did) and the container walked, as the call left it.
Outcome(raised, ret, node) == [raised |-> raised, ret |-> ret, node |-> node]

\* lines 87-97 with `last_key in current` lost: an absent key is created
SetLastCreating(current, last_key, value) ==
    IF current.t = "obj"
    THEN IF last_key \notin DOMAIN current.m
         THEN Outcome(FALSE, TRUE,
                      Obj([k \in DOMAIN current.m \cup {last_key} |->
                              IF k = last_key THEN Str(value) ELSE current.m[k]]))
         ELSE IF current.m[last_key] # Str(value)
         THEN Outcome(FALSE, TRUE,
                      Obj([current.m EXCEPT ![last_key] = Str(value)]))
         ELSE Outcome(FALSE, FALSE, current)
    ELSE Outcome(TRUE, FALSE, current)

\* lines 87-97 with `current[last_key] != value` lost: a present key always
\* counts as updated
SetLastAlwaysTrue(current, last_key, value) ==
    IF current.t = "obj"
    THEN IF last_key \in DOMAIN current.m
         THEN Outcome(FALSE, TRUE,
                      Obj([current.m EXCEPT ![last_key] = Str(value)]))
         ELSE Outcome(FALSE, FALSE, current)
    ELSE Outcome(TRUE, FALSE, current)

\* lines 87-97 on the container `current`
SetLast(current, last_key, value) ==
    IF current.t = "obj"
    THEN IF last_key \in DOMAIN current.m /\ current.m[last_key] # Str(value)
         THEN Outcome(FALSE, TRUE,
                      Obj([current.m EXCEPT ![last_key] = Str(value)]))
         ELSE Outcome(FALSE, FALSE, current)
    \* a str: current[last_key] is a TypeError, current.get an AttributeError;
    \* None: `last_key in current` is a TypeError
    ELSE Outcome(TRUE, FALSE, current)

\* lines 81-85 from `current` on with the keys left to walk, then lines 87-97
RECURSIVE Walk(_, _, _)
Walk(current, keys, value) ==
    IF Len(keys) = 1 THEN SetLast(current, keys[1], value)
    ELSE LET k == Head(keys)
         IN  IF current.t = "obj"
             THEN IF k \notin DOMAIN current.m
                  THEN Outcome(FALSE, FALSE, current)
                  ELSE LET r == Walk(current.m[k], Tail(keys), value)
                       IN  Outcome(r.raised, r.ret,
                                   Obj([current.m EXCEPT ![k] = r.node]))
             ELSE IF current.t = "str"
             \* `k not in current` is a substring test; current[k] a TypeError
             THEN IF ~Contains(current.s, k)
                  THEN Outcome(FALSE, FALSE, current)
                  ELSE Outcome(TRUE, FALSE, current)
             \* None: `k not in current` is a TypeError
             ELSE Outcome(TRUE, FALSE, current)

update_metadata_value(metadata_, key_path, value) ==
    Walk(metadata_, SplitDot(key_path), value)

\* ------------------------------------------------------------------- main

\* lines 10-32, in the order the dict lists them.  metadata_key is a str or a
\* list of str (line 137 tells them apart).
StrList(l) == [t |-> "list", l |-> l]

COMPONENTS ==
    << [name |-> "karpenter",
        github_repo |-> "aws/karpenter-provider-aws",
        metadata_key |-> Str("karpenter.version")],
       [name |-> "aws-load-balancer-controller",
        github_repo |-> "kubernetes-sigs/aws-load-balancer-controller",
        metadata_key |-> Str("aws_ingress_controller.version")],
       [name |-> "datadog",
        github_repo |-> "DataDog/helm-charts",
        metadata_key |-> Str("datadog.agent_version")],
       [name |-> "wiz",
        github_repo |-> "wiz-sec/charts",
        metadata_key |-> StrList(<<"wiz.connector.version",
                                   "wiz.sensor.version",
                                   "wiz.admission_controller.version">>)] >>

\* line 128 with no component given a tag pattern
CheckTagFormatNone(component_name) == None

\* line 128
CheckTagFormat(component_name) ==
    IF component_name \in {"karpenter", "datadog"} THEN Str(component_name)
    ELSE None

\* `not latest_version` (line 131): None and the empty string are falsy
Falsy(v) == v = None \/ v = Str("")

\* lines 141 and 146
ChangeLine(component_name, key_path, version) ==
    LET keys == SplitDot(key_path)
    IN  component_name \o ": " \o keys[Len(keys)] \o " updated to " \o version

\* "\n".join(lines)
RECURSIVE JoinLines(_)
JoinLines(lines) ==
    IF Len(lines) = 0 THEN ""
    ELSE IF Len(lines) = 1 THEN lines[1]
    ELSE lines[1] \o "\n" \o JoinLines(Tail(lines))

\* The file on disk.  json.dump(indent=2) fixes the layout of what it writes;
\* json.load keeps the document and forgets the layout.
Missing == [t |-> "missing"]
Invalid == [t |-> "invalid"]
JsonFile(layout, doc) == [t |-> "json", layout |-> layout, doc |-> doc]

\* where the loop of line 124 goes after the component at position c
AfterComponent(c) == IF c >= Len(COMPONENTS) THEN "save" ELSE "fetch"

\* lines 100-121 with an unreadable file taken for an empty document
StartDefaultEmpty ==
    /\ pc = "start"
    /\ metadata' = IF file.t # "json" THEN Obj(<<>>) ELSE file.doc
    /\ loaded' = metadata'
    /\ changes' = <<>>
    /\ ci' = 1
    /\ ki' = 1
    /\ pc' = "fetch"
    /\ UNCHANGED <<file, github, github_output, latest_version, queried, run>>
    /\ UNCHANGED <<fvars, uvars>>

\* lines 100-121.  os.makedirs (line 104) creates the directory config when
\* it is missing and touches no file; the prints to stderr are left out.
Start ==
    /\ pc = "start"
    /\ IF file.t # "json"
       THEN /\ pc' = "exit1"
            /\ UNCHANGED <<metadata, loaded, changes, ci, ki>>
       ELSE /\ metadata' = file.doc
            /\ loaded' = file.doc
            /\ changes' = <<>>
            /\ ci' = 1
            /\ ki' = 1
            /\ pc' = "fetch"
    /\ UNCHANGED <<file, github, github_output, latest_version, queried, run>>
    /\ UNCHANGED <<fvars, uvars>>

\* lines 124-133: one component's release lookup
Fetch ==
    /\ pc = "fetch"
    /\ LET config == COMPONENTS[ci]
           v == get_github_release_info(github[config.github_repo],
                                        CheckTagFormat(config.name))
       IN  /\ latest_version' = v
           /\ queried' = Append(queried, config.github_repo)
           /\ IF Falsy(v)
              THEN /\ ci' = ci + 1
                   /\ pc' = AfterComponent(ci)
              ELSE /\ ci' = ci
                   /\ pc' = "update"
    /\ ki' = 1
    /\ UNCHANGED <<file, github, github_output, metadata, changes, run, loaded>>
    /\ UNCHANGED <<fvars, uvars>>

\* One call of update_metadata_value from main and what main does with its
\* result; `last` tells whether the component has no further key path.  The
\* local `updated` only selects the message of lines 149-152.
UpdateKey(component_name, key_path, last) ==
    LET r == update_metadata_value(metadata, key_path, latest_version.s)
    IN  IF r.raised
        THEN \* nothing catches the exception: traceback, exit status 1
             /\ pc' = "crashed"
             /\ UNCHANGED <<metadata, changes, ci, ki>>
        ELSE /\ metadata' = r.node
             /\ changes' = IF r.ret
                           THEN Append(changes, ChangeLine(component_name, key_path,
                                                           latest_version.s))
                           ELSE changes
             /\ IF last
                THEN /\ ci' = ci + 1
                     /\ ki' = 1
                     /\ pc' = AfterComponent(ci)
                ELSE /\ ci' = ci
                     /\ ki' = ki + 1
                     /\ pc' = "update"

\* lines 137-142 leaving the loop after the first key path
UpdateListKeyFirstOnly ==
    /\ pc = "update"
    /\ COMPONENTS[ci].metadata_key.t = "list"
    /\ UpdateKey(COMPONENTS[ci].name, COMPONENTS[ci].metadata_key.l[ki], TRUE)
    /\ UNCHANGED <<file, github, github_output, latest_version, queried, run, loaded>>
    /\ UNCHANGED <<fvars, uvars>>

\* lines 137-142: the component names a list of key paths
UpdateListKey ==
    /\ pc = "update"
    /\ COMPONENTS[ci].metadata_key.t = "list"
    /\ UpdateKey(COMPONENTS[ci].name, COMPONENTS[ci].metadata_key.l[ki],
                 ki = Len(COMPONENTS[ci].metadata_key.l))
    /\ UNCHANGED <<file, github, github_output, latest_version, queried, run, loaded>>
    /\ UNCHANGED <<fvars, uvars>>

\* lines 143-147: the component names one key path
UpdateSingleKey ==
    /\ pc = "update"
    /\ COMPONENTS[ci].metadata_key.t = "str"
    /\ UpdateKey(COMPONENTS[ci].name, COMPONENTS[ci].metadata_key.s, TRUE)
    /\ UNCHANGED <<file, github, github_output, latest_version, queried, run, loaded>>
    /\ UNCHANGED <<fvars, uvars>>

\* lines 154-156 writing the document as it was read
SaveLoaded ==
    /\ pc = "save"
    /\ file' = JsonFile("indent2", loaded)
    /\ pc' = "output"
    /\ UNCHANGED <<github, github_output, metadata, changes, ci, ki, latest_version,
                   queried, run, loaded>>
    /\ UNCHANGED <<fvars, uvars>>

\* lines 154-156
Save ==
    /\ pc = "save"
    /\ file' = JsonFile("indent2", metadata)
    /\ pc' = "output"
    /\ UNCHANGED <<github, github_output, metadata, changes, ci, ki, latest_version,
                   queried, run, loaded>>
    /\ UNCHANGED <<fvars, uvars>>

\* lines 158-166
Output ==
    /\ pc = "output"
    /\ github_output' =
          IF changes # <<>>
          THEN Append(github_output,
                      "changes<<EOF\n" \o JoinLines(changes) \o "\nEOF\n")
          ELSE github_output
    /\ pc' = "done"
    /\ UNCHANGED <<file, github, metadata, changes, ci, ki, latest_version, queried,
                   run, loaded>>
    /\ UNCHANGED <<fvars, uvars>>

\* The scheduled job starts the script again: a new process, the same files.
Rerun ==
    /\ pc \in {"done", "exit1", "crashed"}
    /\ run.n < MaxRuns
    /\ run' = [n |-> run.n + 1, prev |-> pc, emitted |-> Len(github_output)]
    /\ pc' = "start"
    /\ metadata' = None
    /\ loaded' = None
    /\ changes' = <<>>
    /\ ci' = 1
    /\ ki' = 1
    /\ latest_version' = None
    /\ queried' = <<>>
    /\ UNCHANGED <<file, github, github_output>>
    /\ UNCHANGED <<fvars, uvars>>

\* --------------------------------------------------------- the environment

Release(tag_name, prerelease) == [tag_name |-> tag_name, prerelease |-> prerelease]

\* What each repository may answer during the executions followed.
GithubChoices ==
    [ {"aws/karpenter-provider-aws"} ->
        { Response(<<Release("v1.2.3-controller-v1.2.3", FALSE),
                     Release("v1.2.3", FALSE)>>, 0),
          Response(<<>>, 1),
          Response(<<Release("v1.~.0", TRUE)>>, 0) } ]
    \cup
    [ {"kubernetes-sigs/aws-load-balancer-controller"} ->
        { Response(<<Release("v1.2.3", FALSE)>>, 0),
          Response(<<Release("v", FALSE)>>, 0),
          Response(<<Release("v2.0.0", TRUE), Release("v1.2.3-rc1", FALSE)>>, 0) } ]
    \cup
    [ {"DataDog/helm-charts"} ->
        { Response(<<Release("v7.1.0", TRUE), Release("v7.0.0", FALSE)>>, 0),
          Response(<<Release("datadog-3.1.0", FALSE)>>, 0),
          Response(<<Release("datadog-3.1.0", FALSE),
                     Release("v7.1.0", FALSE)>>, 2) } ]
    \cup
    [ {"wiz-sec/charts"} ->
        { Response(<<Release("v1.2.3", FALSE)>>, 0),
          Response(<<>>, 1) } ]

Repos == {COMPONENTS[i].github_repo : i \in 1..Len(COMPONENTS)}

GithubPool ==
    { g \in [Repos -> UNION {{c[r] : r \in DOMAIN c} : c \in GithubChoices}] :
        \A r \in Repos : \E c \in GithubChoices : DOMAIN c = {r} /\ c[r] = g[r] }

\* A key the document does not hold.
Absent == [t |-> "absent"]

\* The object holding the entries that are not Absent.
ObjOf(entries) ==
    Obj([k \in {x \in DOMAIN entries : entries[x] # Absent} |-> entries[k]])

KarpenterShapes ==
    { ObjOf(("version" :> Str("0.0.1")) @@ ("replicas" :> Str("2"))),
      ObjOf("version" :> Str("1.2.3")),
      Str("0.37.0"),
      ObjOf("version" :> ObjOf("pinned" :> Str("1"))),
      Absent }

IngressShapes ==
    { ObjOf("version" :> Str("0.0.1")), Absent }

DatadogShapes ==
    { ObjOf(("agent_version" :> Str("7.0.0")) @@ ("site" :> Str("datadoghq.eu"))),
      None,
      ObjOf("site" :> Str("datadoghq.eu")) }

WizShapes ==
    { ObjOf(("connector" :> ObjOf("version" :> Str("1.2.3")))
            @@ ("sensor" :> ObjOf("version" :> Str("0.0.1")))
            @@ ("admission_controller" :> ObjOf("version" :> Str("0.0.1")))),
      Str("sensor"),
      None,
      ObjOf(("connector" :> ObjOf("version" :> Str("0.0.1")))
            @@ ("sensor" :> ObjOf("enabled" :> Str("no")))) }

\* The documents metadata.json may hold before the first execution.
DocPool ==
    { ObjOf(("cluster" :> Str("prod")) @@ ("karpenter" :> k)
            @@ ("aws_ingress_controller" :> a) @@ ("datadog" :> d) @@ ("wiz" :> w)) :
        k \in KarpenterShapes, a \in IngressShapes, d \in DatadogShapes,
        w \in WizShapes }

FilePool == {Missing, Invalid} \cup {JsonFile("original", doc) : doc \in DocPool}

\* ------------------------------------------------------- specification Spec

MainOff ==
    /\ file = Missing
    /\ github = [r \in Repos |-> Response(<<>>, 0)]
    /\ github_output = <<>>
    /\ pc = "off"
    /\ metadata = None
    /\ changes = <<>>
    /\ ci = 1
    /\ ki = 1
    /\ latest_version = None
    /\ queried = <<>>
    /\ run = [n |-> 1, prev |-> "none", emitted |-> 0]
    /\ loaded = None

FnOff ==
    /\ f_resp = Response(<<>>, 0)
    /\ f_format = None
    /\ f_ret = None
    /\ f_pc = "off"

UpdOff ==
    /\ u_metadata = None
    /\ u_key_path = ""
    /\ u_value = ""
    /\ u_out = Outcome(FALSE, FALSE, None)
    /\ u_pc = "off"

Init ==
    /\ file \in FilePool
    /\ github \in GithubPool
    /\ github_output = <<>>
    /\ pc = "start"
    /\ metadata = None
    /\ changes = <<>>
    /\ ci = 1
    /\ ki = 1
    /\ latest_version = None
    /\ queried = <<>>
    /\ run = [n |-> 1, prev |-> "none", emitted |-> 0]
    /\ loaded = None
    /\ FnOff
    /\ UpdOff

Next ==
    \/ Start
    \/ Fetch
    \/ UpdateListKey
    \/ UpdateSingleKey
    \/ Save
    \/ Output
    \/ Rerun

Spec == Init /\ [][Next]_vars

\* ----------------------------------------------------- specification SpecFn

\* Tag names as git allows them: plain and v-prefixed versions, a karpenter
\* controller tag, a doubled prefix, the bare prefix, a digit outside ASCII,
\* a release-candidate suffix.
TagPool ==
    {"v1.2.3", "1.2.4", "v1.2.3-controller-v1.2.3", "vv2.0.0", "v",
     "v1.~.0", "v1.2.3-rc1"}

Releases == [tag_name : TagPool, prerelease : BOOLEAN]

SeqsUpTo(S, n) == UNION {[1..k -> S] : k \in 0..n}

Formats == {Str("karpenter"), Str("datadog"), None}

FnInit ==
    /\ f_pc = "call"
    /\ f_ret = None
    /\ f_format \in Formats
    /\ \E rs \in SeqsUpTo(Releases, MaxRel) :
         \E k \in 0..Len(rs) \cup {1} :
            f_resp = Response(rs, k)
    /\ MainOff
    /\ UpdOff

FnCall ==
    /\ f_pc = "call"
    /\ f_ret' = get_github_release_info(f_resp, f_format)
    /\ f_pc' = "ret"
    /\ UNCHANGED <<f_resp, f_format>>
    /\ UNCHANGED <<mvars, uvars>>

FnNext == FnCall

SpecFn == FnInit /\ [][FnNext]_vars

\* ---------------------------------------------------- specification SpecUpd

KeyPathPool ==
    {"karpenter.version", "aws_ingress_controller.version",
     "datadog.agent_version", "wiz.connector.version", "wiz.sensor.version",
     "wiz.admission_controller.version", "cluster", "karpenter", "wiz.sensor",
     "karpenter.version.pinned", "karpenter..version", ""}

ValuePool == {"1.2.3", "0.0.1", ""}

UpdInit ==
    /\ u_pc = "call"
    /\ u_metadata \in DocPool
    /\ u_key_path \in KeyPathPool
    /\ u_value \in ValuePool
    /\ u_out = Outcome(FALSE, FALSE, None)
    /\ MainOff
    /\ FnOff

UpdCall ==
    /\ u_pc = "call"
    /\ u_out' = update_metadata_value(u_metadata, u_key_path, u_value)
    /\ u_pc' = "ret"
    /\ UNCHANGED <<u_metadata, u_key_path, u_value>>
    /\ UNCHANGED <<mvars, fvars>>

UpdNext == UpdCall

SpecUpd == UpdInit /\ [][UpdNext]_vars

\* ======================================================================
\* Properties of get_github_release_info (specification SpecFn)
\* ======================================================================

\* The tag name with one leading 'v' removed, when it has one.
OneVRemoved(tag_name) ==
    IF Len(tag_name) >= 1 /\ CharAt(tag_name, 1) = "v"
    THEN SubSeq(tag_name, 2, Len(tag_name))
    ELSE tag_name

\* s is three non-empty groups of characters of D separated by two dots,
\* with nothing before or after.
IsDottedTriple(s, D) ==
    \E i, j \in 1..Len(s) :
        /\ 1 < i /\ i + 1 < j /\ j < Len(s)
        /\ CharAt(s, i) = "." /\ CharAt(s, j) = "."
        /\ \A h \in (1..Len(s)) \ {i, j} : CharAt(s, h) \in D

\* The tag pattern of a component, on the cleaned tag name.
PatternAccepts(check_tag_format, version) ==
    /\ check_tag_format = Str("karpenter") =>
          IsDottedTriple(version, DecimalDigits) /\ ~Contains(version, "-controller-")
    /\ check_tag_format = Str("datadog") => IsDottedTriple(version, AsciiDigits)

\* The acceptance filter: the pre-release skip, which the code applies when
\* the list holds more than one release, and the tag pattern.
PassesFilter(releases, i, check_tag_format) ==
    /\ ~(Len(releases) > 1 /\ releases[i].prerelease)
    /\ PatternAccepts(check_tag_format, OneVRemoved(releases[i].tag_name))

PassingPositions(releases, check_tag_format) ==
    {i \in 1..Len(releases) : PassesFilter(releases, i, check_tag_format)}

Minimum(S) == CHOOSE x \in S : \A y \in S : x <= y

\* C1: for every release list that is delivered without a network error,
\* get_github_release_info returns the tag name, one leading 'v' removed, of
\* the first release in listed order that passes the component's acceptance
\* filter, and returns None exactly when no release of the list passes it.
C1_FirstAccepted ==
    (f_pc = "ret" /\ f_resp.failAt = 0) =>
        LET passing == PassingPositions(f_resp.releases, f_format)
        IN  IF passing = {}
            THEN f_ret = None
            ELSE /\ f_ret # None
                 /\ f_ret = Str(OneVRemoved(f_resp.releases[Minimum(passing)].tag_name))

\* A list whose first two releases are rejected (one by the pattern, one as a
\* pre-release) and whose third, a v-prefixed tag, is returned.
C1_Witness ==
    /\ f_pc = "ret"
    /\ f_resp.failAt = 0
    /\ f_format = Str("karpenter")
    /\ Len(f_resp.releases) = 3
    /\ f_resp.releases[1].tag_name = "v1.2.3-controller-v1.2.3"
    /\ f_resp.releases[2].prerelease
    /\ f_resp.releases[3].tag_name = "v1.2.3"
    /\ PassingPositions(f_resp.releases, f_format) = {3}
    /\ f_ret = Str("1.2.3")

\* Some release of the list that is not a pre-release has the version returned.
FromRegularRelease ==
    \E i \in 1..Len(f_resp.releases) :
        /\ ~f_resp.releases[i].prerelease
        /\ f_ret = Str(OneVRemoved(f_resp.releases[i].tag_name))

\* C4 as stated: the version returned is never taken from a pre-release.
C4_NeverPrerelease ==
    (f_pc = "ret" /\ f_ret # None) => FromRegularRelease

\* C4 amended: when the list holds more than one release, the version
\* returned is taken from a release that is not a pre-release (line 44 skips
\* pre-releases only then; a list of one release yields that release even
\* when it is a pre-release).
C4_NeverPrereleaseAmongSeveral ==
    (f_pc = "ret" /\ f_ret # None /\ Len(f_resp.releases) > 1) => FromRegularRelease

\* A pre-release that passes the pattern is listed first and the version of
\* the regular release after it is returned.
C4_Witness ==
    /\ f_pc = "ret"
    /\ Len(f_resp.releases) = 2
    /\ f_resp.releases[1] = [tag_name |-> "1.2.4", prerelease |-> TRUE]
    /\ f_resp.releases[2] = [tag_name |-> "v1.2.3", prerelease |-> FALSE]
    /\ f_format = Str("datadog")
    /\ f_ret = Str("1.2.3")

\* ======================================================================
\* Properties of main (specification Spec)
\* ======================================================================

Range(q) == {q[i] : i \in 1..Len(q)}

IsPrefix(a, b) == Len(a) <= Len(b) /\ SubSeq(b, 1, Len(a)) = a

\* The key paths of a component descriptor, in their listed order.
KeyPathsOf(config) ==
    IF config.metadata_key.t = "list" THEN config.metadata_key.l
    ELSE <<config.metadata_key.s>>

\* Every key path a descriptor names, with the position of its component, in
\* processing order.
RECURSIVE DescriptorPathsFrom(_)
DescriptorPathsFrom(c) ==
    IF c > Len(COMPONENTS) THEN <<>>
    ELSE [i \in 1..Len(KeyPathsOf(COMPONENTS[c])) |->
             [c |-> c, keys |-> SplitDot(KeyPathsOf(COMPONENTS[c])[i])]]
         \o DescriptorPathsFrom(c + 1)

DescriptorPaths == DescriptorPathsFrom(1)

NamedKeys == {DescriptorPaths[i].keys : i \in 1..Len(DescriptorPaths)}

KeysOfComponent(c) ==
    {DescriptorPaths[i].keys : i \in {j \in 1..Len(DescriptorPaths) : DescriptorPaths[j].c = c}}

\* The value the document holds under a sequence of keys; Absent when a key
\* on the way is missing or the value above it is no object.
RECURSIVE ValueAt(_, _)
ValueAt(doc, keys) ==
    IF keys = <<>> THEN doc
    ELSE IF doc.t = "obj" /\ Head(keys) \in DOMAIN doc.m
    THEN ValueAt(doc.m[Head(keys)], Tail(keys))
    ELSE Absent

\* The key sequences of all keys of the document, at every nesting level.
RECURSIVE AllKeyPaths(_)
AllKeyPaths(doc) ==
    IF doc.t # "obj" THEN {}
    ELSE UNION { {<<k>>} \cup {<<k>> \o q : q \in AllKeyPaths(doc.m[k])} :
                 k \in DOMAIN doc.m }

\* q neither is a named path nor lies above one: its value is no container
\* of a named path.
NotNamed(q) == \A d \in NamedKeys : ~IsPrefix(q, d)

\* q lies below a named path.
BelowNamed(q) == \E d \in NamedKeys : IsPrefix(d, q) /\ d # q

\* The run has ended with the document in memory: orderly, or by an uncaught
\* exception of update_metadata_value.
Ended == pc \in {"done", "crashed"}

\* C2 as stated: after a run, every key of the file that is not at a named
\* path holds the value it held when the run loaded the document, and the
\* keys of every nesting level are those of the loaded document.
C2_FrameAllKeys ==
    Ended =>
        /\ file.t = "json"
        /\ AllKeyPaths(file.doc) = AllKeyPaths(loaded)
        /\ \A q \in AllKeyPaths(loaded) :
              NotNamed(q) => ValueAt(file.doc, q) = ValueAt(loaded, q)

\* C2 amended: the same for the keys that do not lie below a named path (an
\* object stored at a named path is replaced as a whole by the version, and
\* the keys inside it go with it).
C2_FrameOutsideNamed ==
    Ended =>
        /\ file.t = "json"
        /\ {q \in AllKeyPaths(file.doc) : ~BelowNamed(q)}
             = {q \in AllKeyPaths(loaded) : ~BelowNamed(q)}
        /\ \A q \in AllKeyPaths(loaded) :
              (NotNamed(q) /\ ~BelowNamed(q)) =>
                  ValueAt(file.doc, q) = ValueAt(loaded, q)

\* A finished run that replaced values and left the unrelated keys, among
\* them a sibling of a named key, as they were.
C2_Witness ==
    /\ pc = "done"
    /\ file.doc # loaded
    /\ ValueAt(loaded, <<"karpenter", "version">>) = Str("0.0.1")
    /\ ValueAt(file.doc, <<"karpenter", "version">>) = Str("1.2.3")
    /\ ValueAt(file.doc, <<"karpenter", "replicas">>) = Str("2")
    /\ ValueAt(file.doc, <<"cluster">>) = Str("prod")

\* The named paths whose value differs from the loaded one, in processing order.
ChangedPaths ==
    SelectSeq(DescriptorPaths,
              LAMBDA d : ValueAt(metadata, d.keys) # ValueAt(loaded, d.keys))

\* C3: when the loop over the components has ended, the change record holds
\* one line per named path whose value was changed, in processing order,
\* and no other line.
C3_ChangeRecord ==
    pc \in {"save", "output", "done"} =>
        changes = [i \in 1..Len(ChangedPaths) |->
                     LET d == ChangedPaths[i]
                     IN  COMPONENTS[d.c].name \o ": " \o d.keys[Len(d.keys)]
                         \o " updated to " \o ValueAt(metadata, d.keys).s]

\* Two components changed, in table order, while wiz.connector.version, which
\* already held the version found, has no line.
C3_Witness ==
    /\ pc = "done"
    /\ changes = <<"karpenter: version updated to 1.2.3",
                   "wiz: version updated to 1.2.3",
                   "wiz: version updated to 1.2.3">>
    /\ ValueAt(loaded, <<"wiz", "connector", "version">>) = Str("1.2.3")

\* C5: after a run, for every component whose lookup yielded a version (a
\* non-empty string), every key path of its descriptor that exists in the
\* document holds that version.
C5_PathsHoldVersion ==
    pc = "done" =>
        \A c \in 1..Len(COMPONENTS) :
            LET v == get_github_release_info(github[COMPONENTS[c].github_repo],
                                             CheckTagFormat(COMPONENTS[c].name))
            IN  (v # None /\ v # Str("")) =>
                    \A keys \in KeysOfComponent(c) :
                        ValueAt(file.doc, keys) # Absent =>
                            /\ ValueAt(file.doc, keys) = v
                            /\ ValueAt(metadata, keys) = v

\* The three wiz paths exist, held different values, and all hold 1.2.3.
C5_Witness ==
    /\ pc = "done"
    /\ ValueAt(loaded, <<"wiz", "connector", "version">>) = Str("1.2.3")
    /\ ValueAt(loaded, <<"wiz", "sensor", "version">>) = Str("0.0.1")
    /\ \A keys \in KeysOfComponent(4) : ValueAt(file.doc, keys) = Str("1.2.3")

\* The network layer raised while the releases of a repository were fetched
\* or iterated: at the first call, or at a later release with every release
\* before it rejected.
FetchRaises(resp, check_tag_format) ==
    /\ resp.failAt >= 1
    /\ \A i \in 1..(resp.failAt - 1) :
          i <= Len(resp.releases) /\ ~PassesFilter(resp.releases, i, check_tag_format)

NetworkFailed(c) ==
    /\ COMPONENTS[c].github_repo \in Range(queried)
    /\ FetchRaises(github[COMPONENTS[c].github_repo], CheckTagFormat(COMPONENTS[c].name))

\* C6: a component whose network call failed is skipped (none of its key
\* paths is changed, no change line names it), and the run goes on: it does
\* not end before every later component was fetched and the document
\* written.
C6_FailureIsolated ==
    \A c \in 1..Len(COMPONENTS) :
        NetworkFailed(c) =>
            /\ \A keys \in KeysOfComponent(c) :
                  ValueAt(metadata, keys) = ValueAt(loaded, keys)
            /\ \A i \in 1..Len(changes) :
                  ~StartsWith(changes[i], COMPONENTS[c].name \o ": ")
            /\ pc # "crashed"
            /\ pc \in {"save", "output", "done"} =>
                  \A c2 \in (c + 1)..Len(COMPONENTS) :
                      COMPONENTS[c2].github_repo \in Range(queried)
            /\ pc = "done" => file = JsonFile("indent2", metadata)

\* C7: a value written at the key path of karpenter or datadog is three
\* groups of decimal digits separated by dots with nothing before or after,
\* and holds no '-controller-'.
C7_WrittenIsDottedTriple ==
    \A c \in 1..Len(COMPONENTS) :
        COMPONENTS[c].name \in {"karpenter", "datadog"} =>
            \A keys \in KeysOfComponent(c) :
                ValueAt(metadata, keys) # ValueAt(loaded, keys) =>
                    /\ ValueAt(metadata, keys).t = "str"
                    /\ IsDottedTriple(ValueAt(metadata, keys).s, DecimalDigits)
                    /\ ~Contains(ValueAt(metadata, keys).s, "-controller-")

\* karpenter lists a controller tag first; the plain version after it is written.
C7_Witness ==
    /\ pc = "done"
    /\ github["aws/karpenter-provider-aws"].releases # <<>>
    /\ github["aws/karpenter-provider-aws"].releases[1].tag_name
          = "v1.2.3-controller-v1.2.3"
    /\ ValueAt(loaded, <<"karpenter", "version">>) = Str("0.0.1")
    /\ ValueAt(file.doc, <<"karpenter", "version">>) = Str("1.2.3")

\* C9: while the configuration file is missing or no valid JSON, main gets no
\* further than its exit with status 1: no repository is queried, nothing
\* is appended to the job output, and the file stays as it is.
C9_UnreadableFileExits ==
    /\ file.t # "json" =>
          /\ pc \in {"off", "start", "exit1"}
          /\ queried = <<>>
          /\ github_output = <<>>
    /\ pc = "exit1" => file \in {Missing, Invalid} /\ queried = <<>>

C9_Witness ==
    /\ pc = "exit1"
    /\ file = Invalid
    /\ run.n = 1

\* C10: in a run that follows a finished run, with the release lists as they
\* were, no value of the document changes, the change record stays empty
\* and no change summary is emitted.
C10_SecondRunIdle ==
    run.prev = "done" =>
        /\ changes = <<>>
        /\ pc \notin {"crashed", "exit1"}
        /\ file.t = "json"
        /\ pc # "start" => metadata = loaded /\ file.doc = loaded
        /\ Len(github_output) = run.emitted

\* The first run changed values and emitted a summary; the second has ended.
C10_Witness ==
    /\ run.prev = "done"
    /\ run.n = 2
    /\ pc = "done"
    /\ Len(github_output) = 1
    /\ file.layout = "indent2"

\* ======================================================================
\* Properties of update_metadata_value (specification SpecUpd)
\* ======================================================================

\* Some key of the path is absent: an intermediate one, or the last one from
\* its parent.
SomeKeyAbsent(doc, keys) ==
    \E n \in 1..Len(keys) : ValueAt(doc, SubSeq(keys, 1, n)) = Absent

\* C8: update_metadata_value creates no key; when a key of the path is
\* absent it returns False and leaves the document as it was; it returns
\* True only when the last key was present with another value.
C8_NeverCreates ==
    u_pc = "ret" =>
        LET keys == SplitDot(u_key_path)
        IN  /\ AllKeyPaths(u_out.node) \subseteq AllKeyPaths(u_metadata)
            /\ SomeKeyAbsent(u_metadata, keys) =>
                  /\ ~u_out.raised
                  /\ u_out.ret = FALSE
                  /\ u_out.node = u_metadata
            /\ (~u_out.raised /\ u_out.ret) =>
                  /\ ValueAt(u_metadata, keys) # Absent
                  /\ ValueAt(u_metadata, keys) # Str(u_value)

====
